---- MODULE Spec2Model ----
(***************************************************************************)
(* Model of the bounded web-crawl engine of web-scraper-qa:                *)
(*   backend/app/services/scraper.py   (RobotsTxtChecker, WebScraper)      *)
(*   backend/app/api/endpoints/scraper.py (scrape_url)                     *)
(*   backend/app/database/crud.py      (CRUDScrapingJob)                   *)
(*                                                                         *)
(* What a crawl fetches and returns is the specification Spec; when the    *)
(* GETs of _fetch_url start, under its rate limiter, is SpecRate.          *)
(*                                                                         *)
(* A URL string "scheme://netloc" + rest is a record [scheme, netloc,      *)
(* rest], rest being the sequence of the tokens that follow the network    *)
(* location (path segments, an extension, a query string), so that         *)
(* str.endswith looks at the last token.                                   *)
(***************************************************************************)
EXTENDS Integers, Sequences, FiniteSets, TLC

\* ------------------------------------------------------------------ bounds
MaxPagesBound == 3      \* largest max_pages a caller configures
MaxCalls == 2           \* scrape invocations in one behaviour
MaxScrapers == 2        \* WebScraper objects in one behaviour
MaxSeedLinks == 3       \* anchors on a fetched seed page
MaxLinks == 3           \* anchors on a page handed to _extract_links alone
TicksPerSecond == 2     \* resolution of the clock the rate limiter reads
MaxClock == 6           \* ticks the clock runs in one behaviour
MaxGets == 3            \* _fetch_url calls timed in one behaviour
MaxRateLimit == 2       \* largest rate_limit a caller configures

\* ------------------------------------------------------------- URL strings
NoneStr == "None"

Url(n, r) == [scheme |-> "https", netloc |-> n, rest |-> r]
NoUrl == [scheme |-> "", netloc |-> "", rest |-> <<>>]
NotAUrl == [scheme |-> "", netloc |-> "", rest |-> <<"not a url">>]

SeedA == Url("a", <<"/">>)
SeedB == Url("b", <<"/">>)
ValidSeeds == {SeedA, SeedB}
MalformedSeeds == {NotAUrl}
Seeds == ValidSeeds \cup MalformedSeeds

\* anchors: href="" | href="/path" | href="https://netloc/path" | href="http://["
HEmpty == [kind |-> "empty", netloc |-> "", rest |-> <<>>]
HPath(r) == [kind |-> "path", netloc |-> "", rest |-> r]
HAbs(n, r) == [kind |-> "abs", netloc |-> n, rest |-> r]
HBad == [kind |-> "bad", netloc |-> "[", rest |-> <<>>]

BinaryExt == {".pdf", ".zip", ".png", ".jpg"}

\* hrefs found on a seed page in the crawl
SeedHrefs ==
  { HEmpty, HPath(<<"/p1">>), HPath(<<"/p2">>), HPath(<<"/f", ".pdf">>),
    HAbs("b", <<"/p1">>), HBad }

\* hrefs of the pages handed to _extract_links alone
Hrefs ==
  { HEmpty, HPath(<<"/p1">>), HPath(<<"/f", ".pdf">>), HPath(<<"/f", ".jpg">>),
    HPath(<<"/f", ".pdf", "?q">>), HAbs("b", <<"/p1">>), HAbs("a", <<"/g", ".zip">>),
    HAbs("b", <<"/g", ".png">>) }

SeqsUpTo(S, n) == UNION { [1..k -> S] : k \in 0..n }

SeedPages == SeqsUpTo(SeedHrefs, MaxSeedLinks)

\* the anchors of a fetched secondary page: none, or one to a page the seed does not name
SecondaryPages == { <<>>, <<HPath(<<"/deep">>)>> }

\* ----------------------------------------------------- library operations
\* urllib.parse.urlparse(url).netloc
netloc(url) == url.netloc

\* urllib.parse.urljoin raises ValueError on an unbalanced '[' in the netloc
urljoin_raises(href) == href.kind = "bad"

\* urllib.parse.urljoin(base, href)
urljoin(base, href) ==
  CASE href.kind = "empty" -> base
    [] href.kind = "path" -> [base EXCEPT !.rest = href.rest]
    [] OTHER -> Url(href.netloc, href.rest)

\* str.endswith(('.pdf', '.zip', '.png', '.jpg'))
endswith(url, exts) == url.rest # <<>> /\ url.rest[Len(url.rest)] \in exts

\* list[:n]
PySlice(s, n) ==
  IF n >= 0 THEN SubSeq(s, 1, IF n < Len(s) THEN n ELSE Len(s))
            ELSE SubSeq(s, 1, IF Len(s) + n > 0 THEN Len(s) + n ELSE 0)

\* ----------------------------------------------------------- ScrapingConfig
ScrapingConfig ==
  [max_pages |-> 100, rate_limit |-> 1, respect_robots_txt |-> TRUE,
   scrape_multiple_pages |-> TRUE]

NoConfig == [max_pages |-> -1, rate_limit |-> -1, respect_robots_txt |-> FALSE,
             scrape_multiple_pages |-> FALSE]

Configs ==
  [max_pages : 0..MaxPagesBound, rate_limit : {1}, respect_robots_txt : BOOLEAN,
   scrape_multiple_pages : BOOLEAN]

ConfigArgs == Configs \cup {NoConfig}

\* ------------------------------------------------------- robots.txt rules
Domains == {"a", "b"}

\* the Disallow prefixes a robots.txt body gives for user agent "*"
RobotsTexts == { {}, {"/"} }

\* what requests.get(robots_url, timeout=5) does: raise, or answer with a body
RobotsResponses ==
  { [ok |-> FALSE, rules |-> {}] } \cup { [ok |-> TRUE, rules |-> r] : r \in RobotsTexts }

RobotsUrl(domain) == Url(domain, <<"/robots.txt">>)

\* RobotExclusionRulesParser.is_allowed("*", url): no Disallow prefix matches the path
is_allowed(rules, url) ==
  ~ \E r \in rules : r = "/" \/ (url.rest # <<>> /\ url.rest[1] = r)

\* RobotsTxtChecker.__init__
RobotsTxtChecker == [parser |-> {}, cache |-> {}]

\* a checker whose except clause answers False
can_fetch_failclosed(checker, url, resp) ==
  LET domain == netloc(url) IN
  IF domain \in checker.cache
    THEN [allowed |-> is_allowed(checker.parser, url), checker |-> checker, get |-> FALSE]
    ELSE IF ~resp.ok
      THEN [allowed |-> FALSE, checker |-> checker, get |-> TRUE]
      ELSE [allowed |-> is_allowed(resp.rules, url),
            checker |-> [parser |-> resp.rules, cache |-> checker.cache \cup {domain}],
            get |-> TRUE]

\* RobotsTxtChecker.can_fetch(url); resp is what the robots.txt GET does if issued.
\* The one parser object is stored under every domain, so cache is the key set.
can_fetch(checker, url, resp) ==
  LET domain == netloc(url) IN
  IF domain \in checker.cache
    THEN [allowed |-> is_allowed(checker.parser, url), checker |-> checker, get |-> FALSE]
    ELSE IF ~resp.ok
      THEN [allowed |-> TRUE, checker |-> checker, get |-> TRUE]
      ELSE [allowed |-> is_allowed(resp.rules, url),
            checker |-> [parser |-> resp.rules, cache |-> checker.cache \cup {domain}],
            get |-> TRUE]

\* --------------------------------------------------------------- WebScraper
\* a constructor that drops its argument: self.config = ScrapingConfig()
WebScraperDefault(config) ==
  [config |-> ScrapingConfig,
   robots_checker |-> RobotsTxtChecker,
   visited_urls |-> {}]

\* WebScraper.__init__(config)
WebScraper(config) ==
  [config |-> IF config = NoConfig THEN ScrapingConfig ELSE config,
   robots_checker |-> RobotsTxtChecker,
   visited_urls |-> {}]

\* a validator that accepts every string
_is_valid_url_any(url) == TRUE

\* WebScraper._is_valid_url: validators.url wants a scheme and a host
_is_valid_url(url) == url.scheme \in {"http", "https"} /\ url.netloc # ""

\* the test without its same-domain conjunct
KeepLinkAnyDomain(full_url, base_domain, visited_urls) ==
  /\ full_url \notin visited_urls
  /\ ~ endswith(full_url, BinaryExt)

\* the test of WebScraper._extract_links on one resolved URL
KeepLink(full_url, base_domain, visited_urls) ==
  /\ netloc(full_url) = base_domain
  /\ full_url \notin visited_urls
  /\ ~ endswith(full_url, BinaryExt)

\* WebScraper._extract_links raises when urljoin or urlparse raises on an href
_extract_links_raises(soup) == \E i \in 1..Len(soup) : urljoin_raises(soup[i])

RECURSIVE FilterLinks(_, _, _)
FilterLinks(soup, base_url, visited_urls) ==
  IF soup = <<>> THEN <<>>
  ELSE LET full_url == urljoin(base_url, Head(soup))
           tail == FilterLinks(Tail(soup), base_url, visited_urls)
       IN IF KeepLink(full_url, netloc(base_url), visited_urls)
            THEN <<full_url>> \o tail ELSE tail

\* WebScraper._extract_links(soup, base_url), when it does not raise
_extract_links(soup, base_url, visited_urls) == FilterLinks(soup, base_url, visited_urls)

\* -------------------------------------------------------------------- state
VARIABLES
  config_arg,       \* the configuration the callers of this process pass
  scrapers,         \* the live WebScraper objects, in creation order
  jobs,             \* the ScrapingJob rows, in creation order
  pc,               \* position of the one flow of control
  call,             \* the running scrape invocation: object (made for it or not), seed, caller
  outcome,          \* "none" | "returned" | "ValueError" | "PermissionError"
  allowed,          \* what can_fetch answered: "unset" | "True" | "False"
  results,          \* the results dict of scrape
  results_made,     \* the results dict exists
  main_response,    \* "unset" | "ok" | "None"
  main_soup,        \* anchors of the parsed seed page
  links_to_scrape,  \* the truncated candidate list
  idx,              \* position of the for loop in links_to_scrape
  net,              \* the HTTP GETs issued by this invocation, in order
  robots_gets,      \* robots.txt GETs issued by the process, per domain
  calls,            \* scrape invocations started so far
  ex_in,            \* arguments of a stand-alone _extract_links call
  ex_out,           \* its return value
  clock,            \* ticks since the @limits decorator object was made
  last_reset,       \* RateLimitDecorator.last_reset
  num_calls,        \* RateLimitDecorator.num_calls
  get_times,        \* one entry per requests.get of _fetch_url: when, what came back
  fetch_calls       \* calls of _fetch_url that have returned

rate_vars == <<clock, last_reset, num_calls, get_times, fetch_calls>>

vars == <<config_arg, scrapers, jobs, pc, call, outcome, allowed, results, results_made,
          main_response, main_soup, links_to_scrape, idx, net, robots_gets,
          calls, ex_in, ex_out, rate_vars>>

crawl_vars == <<config_arg, scrapers, jobs, pc, call, outcome, allowed, results, results_made,
                main_response, main_soup, links_to_scrape, idx, net, robots_gets,
                calls>>

NoResults == [base_url |-> NoUrl, pages |-> <<>>, error |-> NoneStr]
NoCall == [self |-> 0, url |-> NoUrl, via |-> "none", job |-> 0, fresh |-> FALSE]
NoExtract == [soup |-> <<>>, base_url |-> NoUrl, visited_urls |-> {}]

PageGet(url) == [kind |-> "page", url |-> url]
RobotsGet(domain) == [kind |-> "robots", url |-> RobotsUrl(domain)]

\* the locals of scrape before the call
FreshLocals ==
  /\ outcome' = "none"
  /\ allowed' = "unset"
  /\ results' = NoResults
  /\ results_made' = FALSE
  /\ main_response' = "unset"
  /\ main_soup' = <<>>
  /\ links_to_scrape' = <<>>
  /\ idx' = 0
  /\ net' = <<>>

\* the process after import: no WebScraper yet, the decorator of _fetch_url just made
InitProcess ==
  /\ scrapers = <<>>
  /\ jobs = <<>>
  /\ pc = "idle"
  /\ call = NoCall
  /\ outcome = "none"
  /\ allowed = "unset"
  /\ results = NoResults
  /\ results_made = FALSE
  /\ main_response = "unset"
  /\ main_soup = <<>>
  /\ links_to_scrape = <<>>
  /\ idx = 0
  /\ net = <<>>
  /\ robots_gets = [d \in Domains |-> 0]
  /\ calls = 0
  /\ ex_in = NoExtract
  /\ ex_out = <<>>
  /\ clock = 0
  /\ last_reset = 0
  /\ num_calls = 0
  /\ get_times = <<>>
  /\ fetch_calls = 0

Init ==
  /\ config_arg \in ConfigArgs
  /\ InitProcess

self == scrapers[call.self]
config == self.config
visited_urls == self.visited_urls

\* ------------------------------------------------------------------ callers
\* __main__: scraper = WebScraper(config); scraper.scrape(url)
Main(url) ==
  /\ pc = "idle"
  /\ calls < MaxCalls
  /\ Len(scrapers) < MaxScrapers
  /\ scrapers' = Append(scrapers, WebScraper(config_arg))
  /\ call' = [self |-> Len(scrapers) + 1, url |-> url, via |-> "direct", job |-> 0,
              fresh |-> TRUE]
  /\ calls' = calls + 1
  /\ pc' = "validate"
  /\ FreshLocals
  /\ UNCHANGED <<config_arg, jobs, robots_gets, ex_in, ex_out, rate_vars>>

\* a further scraper.scrape(url) on a WebScraper that exists
ScrapeAgain(i, url) ==
  /\ pc = "idle"
  /\ calls < MaxCalls
  /\ i \in 1..Len(scrapers)
  /\ call' = [self |-> i, url |-> url, via |-> "direct", job |-> 0, fresh |-> FALSE]
  /\ calls' = calls + 1
  /\ pc' = "validate"
  /\ FreshLocals
  /\ UNCHANGED <<config_arg, scrapers, jobs, robots_gets, ex_in, ex_out, rate_vars>>

\* CRUDScrapingJob.create
create(url, cfg) == [url |-> url, status |-> "pending", config |-> cfg,
                     has_content |-> FALSE, content |-> NoResults]

\* CRUDScrapingJob.update_status
update_status(js, job_id, status) ==
  IF job_id \in 1..Len(js) THEN [js EXCEPT ![job_id].status = status] ELSE js

\* CRUDScrapingJob.update_job, content given
update_job(js, job_id, status, content) ==
  IF job_id \in 1..Len(js)
    THEN [js EXCEPT ![job_id].status = status, ![job_id].has_content = TRUE,
                    ![job_id].content = content]
    ELSE js

\* scrape_url up to the call of scraper.scrape; request.url passed HttpUrl validation
scrape_url(url) ==
  /\ pc = "idle"
  /\ calls < MaxCalls
  /\ Len(scrapers) < MaxScrapers
  /\ url \in ValidSeeds
  /\ LET cfg == IF config_arg = NoConfig THEN ScrapingConfig ELSE config_arg
         job_id == Len(jobs) + 1
     IN /\ jobs' = update_status(Append(jobs, create(url, cfg)), job_id, "running")
        /\ scrapers' = Append(scrapers, WebScraper(cfg))
        /\ call' = [self |-> Len(scrapers) + 1, url |-> url, via |-> "endpoint",
                    job |-> job_id, fresh |-> TRUE]
  /\ calls' = calls + 1
  /\ pc' = "validate"
  /\ FreshLocals
  /\ UNCHANGED <<config_arg, robots_gets, ex_in, ex_out, rate_vars>>

\* ---------------------------------------------------------- WebScraper.scrape
\* the condition with its "not" left out
RobotsForbidsInverted(respect_robots_txt, can) == respect_robots_txt /\ can

\* self.config.respect_robots_txt and not self.robots_checker.can_fetch(url)
RobotsForbids(respect_robots_txt, can) == respect_robots_txt /\ ~ can

\* a list left as long as _extract_links made it
TruncateNone(links, max_pages) == links

\* links_to_scrape[:self.config.max_pages - 1]
Truncate(links, max_pages) == PySlice(links, max_pages - 1)

\* len(self.visited_urls) >= self.config.max_pages
BudgetReached(visited, max_pages) == Cardinality(visited) >= max_pages

\* if self.config.scrape_multiple_pages, with the flag ignored
ShouldExpandAlways(cfg) == TRUE

\* if self.config.scrape_multiple_pages
ShouldExpand(cfg) == cfg.scrape_multiple_pages

\* a loop that fetches every candidate, visited or not
AlreadyVisitedNever(link, visited) == FALSE

\* the negation of: link not in self.visited_urls
AlreadyVisited(link, visited) == link \in visited

\* a crawl that never writes to the visited set
SetVisitedNever(v) == scrapers' = scrapers

\* self.visited_urls.add(v)
SetVisited(v) == scrapers' = [scrapers EXCEPT ![call.self].visited_urls = v]

\* results['pages'].append({'url': url, 'content': ...})
AppendPage(pages, url) == Append(pages, [url |-> url])

\* if not self._is_valid_url(url): raise ValueError
Validate ==
  /\ pc = "validate"
  /\ IF _is_valid_url(call.url)
       THEN /\ pc' = "robots"
            /\ outcome' = outcome
       ELSE /\ pc' = "done"
            /\ outcome' = "ValueError"
  /\ UNCHANGED <<config_arg, scrapers, jobs, call, allowed, results, results_made,
                 main_response, main_soup, links_to_scrape, idx, net, robots_gets,
                 calls, ex_in, ex_out, rate_vars>>

\* a check that calls can_fetch whatever respect_robots_txt says
CheckRobotsAlways ==
  /\ pc = "robots"
  /\ IF TRUE
       THEN \E resp \in RobotsResponses :
              LET r == can_fetch(self.robots_checker, call.url, resp)
                  domain == netloc(call.url)
              IN /\ scrapers' = [scrapers EXCEPT ![call.self].robots_checker = r.checker]
                 /\ net' = IF r.get THEN Append(net, RobotsGet(domain)) ELSE net
                 /\ robots_gets' = IF r.get
                                     THEN [robots_gets EXCEPT ![domain] = @ + 1]
                                     ELSE robots_gets
                 /\ allowed' = IF r.allowed THEN "True" ELSE "False"
                 /\ IF RobotsForbids(config.respect_robots_txt, r.allowed)
                      THEN pc' = "done" /\ outcome' = "PermissionError"
                      ELSE pc' = "fetch_seed" /\ outcome' = outcome
       ELSE /\ pc' = "fetch_seed"
            /\ UNCHANGED <<scrapers, net, robots_gets, allowed, outcome>>
  /\ UNCHANGED <<config_arg, jobs, call, results, results_made, main_response,
                 main_soup, links_to_scrape, idx, calls, ex_in, ex_out, rate_vars>>

\* if self.config.respect_robots_txt and not self.robots_checker.can_fetch(url):
\*     raise PermissionError
CheckRobots ==
  /\ pc = "robots"
  /\ IF config.respect_robots_txt
       THEN \E resp \in RobotsResponses :
              LET r == can_fetch(self.robots_checker, call.url, resp)
                  domain == netloc(call.url)
              IN /\ scrapers' = [scrapers EXCEPT ![call.self].robots_checker = r.checker]
                 /\ net' = IF r.get THEN Append(net, RobotsGet(domain)) ELSE net
                 /\ robots_gets' = IF r.get
                                     THEN [robots_gets EXCEPT ![domain] = @ + 1]
                                     ELSE robots_gets
                 /\ allowed' = IF r.allowed THEN "True" ELSE "False"
                 /\ IF RobotsForbids(config.respect_robots_txt, r.allowed)
                      THEN pc' = "done" /\ outcome' = "PermissionError"
                      ELSE pc' = "fetch_seed" /\ outcome' = outcome
       ELSE /\ pc' = "fetch_seed"
            /\ UNCHANGED <<scrapers, net, robots_gets, allowed, outcome>>
  /\ UNCHANGED <<config_arg, jobs, call, results, results_made, main_response,
                 main_soup, links_to_scrape, idx, calls, ex_in, ex_out, rate_vars>>

\* str(e) of the exception raised for an unavailable seed
SeedError == "Failed to fetch main URL"

\* str(e) of the ValueError urljoin raises
LinkError == "Invalid IPv6 URL"

\* as SeedUnavailable, without the except clause: the exception leaves scrape
SeedUnavailableRaises ==
  /\ pc = "fetch_seed"
  /\ results_made' = TRUE
  /\ net' = Append(net, PageGet(call.url))
  /\ main_response' = "None"
  /\ results' = [base_url |-> call.url, pages |-> <<>>, error |-> NoneStr]
  /\ outcome' = "Exception"
  /\ pc' = "done"
  /\ UNCHANGED <<config_arg, scrapers, jobs, call, allowed, main_soup, links_to_scrape,
                 idx, robots_gets, calls, ex_in, ex_out, rate_vars>>

\* results = {...}; self._fetch_url(url) gives None: the raise is caught by the
\* except clause, which sets results['error']; scrape returns results
SeedUnavailable ==
  /\ pc = "fetch_seed"
  /\ results_made' = TRUE
  /\ net' = Append(net, PageGet(call.url))
  /\ main_response' = "None"
  /\ results' = [base_url |-> call.url, pages |-> <<>>, error |-> SeedError]
  /\ outcome' = "returned"
  /\ pc' = "done"
  /\ UNCHANGED <<config_arg, scrapers, jobs, call, allowed, main_soup, links_to_scrape,
                 idx, robots_gets, calls, ex_in, ex_out, rate_vars>>

\* results = {...}; self._fetch_url(url) gives a response: parse it, mark the seed
\* visited and append the first page
SeedFetched ==
  /\ pc = "fetch_seed"
  /\ results_made' = TRUE
  /\ net' = Append(net, PageGet(call.url))
  /\ main_response' = "ok"
  /\ \E soup \in SeedPages : main_soup' = soup
  /\ SetVisited(visited_urls \cup {call.url})
  /\ results' = [base_url |-> call.url, pages |-> AppendPage(<<>>, call.url),
                 error |-> NoneStr]
  /\ pc' = "expand"
  /\ UNCHANGED <<config_arg, jobs, call, outcome, allowed, links_to_scrape, idx,
                 robots_gets, calls, ex_in, ex_out, rate_vars>>

\* if self.config.scrape_multiple_pages: extract the links and truncate the list
ExpandSeed ==
  /\ pc = "expand"
  /\ IF ~ ShouldExpand(config)
       THEN /\ pc' = "done"
            /\ outcome' = "returned"
            /\ UNCHANGED <<results, links_to_scrape, idx>>
       ELSE IF _extract_links_raises(main_soup)
         THEN /\ results' = [results EXCEPT !.error = LinkError]
              /\ pc' = "done"
              /\ outcome' = "returned"
              /\ UNCHANGED <<links_to_scrape, idx>>
         ELSE /\ links_to_scrape' =
                   Truncate(_extract_links(main_soup, call.url, visited_urls),
                            config.max_pages)
              /\ idx' = 1
              /\ pc' = "loop"
              /\ UNCHANGED <<results, outcome>>
  /\ UNCHANGED <<config_arg, scrapers, jobs, call, allowed, results_made,
                 main_response, main_soup, net, robots_gets, calls, ex_in, ex_out, rate_vars>>

\* a loop that stays on a link whose fetch gave None and fetches it again
LoopIterRetry ==
  /\ pc = "loop"
  /\ IF idx > Len(links_to_scrape) \/ BudgetReached(visited_urls, config.max_pages)
       THEN /\ pc' = "done"
            /\ outcome' = "returned"
            /\ UNCHANGED <<scrapers, results, net, idx>>
       ELSE LET link == links_to_scrape[idx] IN
            /\ pc' = pc
            /\ outcome' = outcome
            /\ IF AlreadyVisited(link, visited_urls)
                 THEN /\ idx' = idx + 1
                      /\ UNCHANGED <<scrapers, results, net>>
                 ELSE /\ net' = Append(net, PageGet(link))
                      /\ \/ /\ idx' = idx
                            /\ UNCHANGED <<scrapers, results>>
                         \/ \E soup \in SecondaryPages :
                              /\ idx' = idx + 1
                              /\ SetVisited(visited_urls \cup {link})
                              /\ results' = [results EXCEPT
                                   !.pages = Append(@, [url |-> link])]
  /\ UNCHANGED <<config_arg, jobs, call, allowed, results_made, main_response,
                 main_soup, links_to_scrape, robots_gets, calls, ex_in, ex_out, rate_vars>>

\* a loop that queues the links of every secondary page it fetched
LoopIterDeep ==
  /\ pc = "loop"
  /\ IF idx > Len(links_to_scrape) \/ BudgetReached(visited_urls, config.max_pages)
       THEN /\ pc' = "done"
            /\ outcome' = "returned"
            /\ UNCHANGED <<scrapers, results, net, idx, links_to_scrape>>
       ELSE LET link == links_to_scrape[idx] IN
            /\ pc' = pc
            /\ outcome' = outcome
            /\ idx' = idx + 1
            /\ IF AlreadyVisited(link, visited_urls)
                 THEN UNCHANGED <<scrapers, results, net, links_to_scrape>>
                 ELSE /\ net' = Append(net, PageGet(link))
                      /\ \/ UNCHANGED <<scrapers, results, links_to_scrape>>
                         \/ \E soup \in SecondaryPages :
                              /\ SetVisited(visited_urls \cup {link})
                              /\ results' = [results EXCEPT
                                   !.pages = Append(@, [url |-> link])]
                              /\ links_to_scrape' = links_to_scrape \o
                                   _extract_links(soup, link, visited_urls \cup {link})
  /\ UNCHANGED <<config_arg, jobs, call, allowed, results_made, main_response,
                 main_soup, robots_gets, calls, ex_in, ex_out, rate_vars>>

\* a loop in which a None response ends the crawl with an error
LoopIterAbort ==
  /\ pc = "loop"
  /\ IF idx > Len(links_to_scrape) \/ BudgetReached(visited_urls, config.max_pages)
       THEN /\ pc' = "done"
            /\ outcome' = "returned"
            /\ UNCHANGED <<scrapers, results, net, idx>>
       ELSE LET link == links_to_scrape[idx] IN
            /\ idx' = idx + 1
            /\ IF AlreadyVisited(link, visited_urls)
                 THEN /\ pc' = pc
                      /\ outcome' = outcome
                      /\ UNCHANGED <<scrapers, results, net>>
                 ELSE /\ net' = Append(net, PageGet(link))
                      /\ \/ /\ pc' = "done"
                            /\ outcome' = "returned"
                            /\ results' = [results EXCEPT !.error = SeedError]
                            /\ UNCHANGED scrapers
                         \/ \E soup \in SecondaryPages :
                              /\ pc' = pc
                              /\ outcome' = outcome
                              /\ SetVisited(visited_urls \cup {link})
                              /\ results' = [results EXCEPT
                                   !.pages = Append(@, [url |-> link])]
  /\ UNCHANGED <<config_arg, jobs, call, allowed, results_made, main_response,
                 main_soup, links_to_scrape, robots_gets, calls, ex_in, ex_out, rate_vars>>

\* one pass of: for link in links_to_scrape; a fetched page is parsed and its content
\* appended, its anchors are left alone
LoopIter ==
  /\ pc = "loop"
  /\ IF idx > Len(links_to_scrape) \/ BudgetReached(visited_urls, config.max_pages)
       THEN /\ pc' = "done"
            /\ outcome' = "returned"
            /\ UNCHANGED <<scrapers, results, net, idx>>
       ELSE LET link == links_to_scrape[idx] IN
            /\ pc' = pc
            /\ outcome' = outcome
            /\ idx' = idx + 1
            /\ IF AlreadyVisited(link, visited_urls)
                 THEN UNCHANGED <<scrapers, results, net>>
                 ELSE /\ net' = Append(net, PageGet(link))
                      /\ \/ UNCHANGED <<scrapers, results>>
                         \/ \E soup \in SecondaryPages :
                              /\ SetVisited(visited_urls \cup {link})
                              /\ results' = [results EXCEPT
                                   !.pages = AppendPage(@, link)]
  /\ UNCHANGED <<config_arg, jobs, call, allowed, results_made, main_response,
                 main_soup, links_to_scrape, robots_gets, calls, ex_in, ex_out, rate_vars>>

\* an endpoint that reports every returned result as completed
JobStatusCompleted(result) == "completed"

\* status = "failed" if result.get('error') else "completed"
JobStatus(result) ==
  IF result.error # NoneStr /\ result.error # "" THEN "failed" ELSE "completed"

\* scrape returns or raises to its caller; scrape_url records the job's end and
\* its local WebScraper goes out of scope
Finish ==
  /\ pc = "done"
  /\ pc' = "idle"
  /\ jobs' = IF call.via # "endpoint" THEN jobs
             ELSE IF outcome = "returned"
               THEN update_job(jobs, call.job, JobStatus(results), results)
               ELSE update_status(jobs, call.job, "failed")
  /\ scrapers' = IF call.via = "endpoint"
                   THEN SubSeq(scrapers, 1, Len(scrapers) - 1) ELSE scrapers
  /\ call' = NoCall
  /\ FreshLocals
  /\ UNCHANGED <<config_arg, robots_gets, calls, ex_in, ex_out, rate_vars>>

Next ==
  \/ \E url \in Seeds : Main(url)
  \/ \E i \in 1..MaxScrapers, url \in Seeds : ScrapeAgain(i, url)
  \/ \E url \in ValidSeeds : scrape_url(url)
  \/ Validate
  \/ CheckRobots
  \/ SeedUnavailable
  \/ SeedFetched
  \/ ExpandSeed
  \/ LoopIter
  \/ Finish

Spec == Init /\ [][Next]_vars

\* ----------------------------------------- _extract_links as a function alone
ExtractUrls == { Url("a", <<"/">>), Url("a", <<"/p1">>), Url("b", <<"/p1">>) }

ExtractLinksCall ==
  /\ ex_in = NoExtract
  /\ \E soup \in SeqsUpTo(Hrefs, MaxLinks), base_url \in {SeedA, SeedB},
        visited \in SUBSET ExtractUrls :
       /\ ex_in' = [soup |-> soup, base_url |-> base_url, visited_urls |-> visited]
       /\ ex_out' = _extract_links(soup, base_url, visited)
       /\ UNCHANGED <<crawl_vars, rate_vars>>

SpecLinks == Init /\ [][ExtractLinksCall]_vars

\* ------------------------------------------- the rate limiter around _fetch_url
\* @limits(calls=1, period=1): the arguments are literals, config.rate_limit is not read
LimitCalls == 1
LimitPeriod == 1

\* the period in clock ticks
PeriodTicks == LimitPeriod * TicksPerSecond

\* configurations that differ in rate_limit only
RateConfigs ==
  [ max_pages : {ScrapingConfig.max_pages},
    rate_limit : 1..MaxRateLimit,
    respect_robots_txt : {ScrapingConfig.respect_robots_txt},
    scrape_multiple_pages : {ScrapingConfig.scrape_multiple_pages} ]

\* one pass through the wrapper @limits puts around _fetch_url, at time now: the window
\* restarts when the period since last_reset is over, the call is counted, and a call
\* beyond LimitCalls in the window raises RateLimitException(period_remaining)
limits(lr, n, now) ==
  LET period_remaining == PeriodTicks - (now - lr)
      restart == period_remaining <= 0
      counted == (IF restart THEN 0 ELSE n) + 1
  IN  [ raises |-> counted > LimitCalls,
        period_remaining |-> period_remaining,
        last_reset |-> IF restart THEN now ELSE lr,
        num_calls |-> counted ]

\* @sleep_and_retry: sleep for period_remaining and call again until nothing is raised;
\* yields the time the wrapped function body starts at and the limiter's fields then
RECURSIVE sleep_and_retry(_, _, _)
sleep_and_retry(lr, n, now) ==
  LET attempt == limits(lr, n, now)
  IN  IF attempt.raises
        THEN sleep_and_retry(attempt.last_reset, attempt.num_calls,
                             now + attempt.period_remaining)
        ELSE [ start |-> now, last_reset |-> attempt.last_reset,
               num_calls |-> attempt.num_calls ]

\* time passes between two calls (and while a GET is under way)
Tick ==
  /\ clock < MaxClock
  /\ clock' = clock + 1
  /\ UNCHANGED <<crawl_vars, ex_in, ex_out, last_reset, num_calls, get_times, fetch_calls>>

\* status codes a server answers with, redirects having been followed by requests
StatusCodes == {200, 304, 404, 503}

\* what requests.get(url, timeout=10) does: raise (connection error, timeout), or
\* answer with a status
GetOutcomes ==
  { [raises |-> TRUE, status |-> 0] } \cup { [raises |-> FALSE, status |-> c] : c \in StatusCodes }

\* Response.raise_for_status raises HTTPError for the 4xx and 5xx codes
raise_for_status(status) == status \in 400..599

\* the try/except of _fetch_url: the response, or None when anything was raised
fetch_result(got) ==
  IF got.raises \/ raise_for_status(got.status) THEN NoneStr ELSE "ok"

\* one call of _fetch_url by any WebScraper of the process: the limiter lets it through,
\* at once or after sleeping, and the body issues its GET; the response or None comes back
_fetch_url ==
  /\ Len(get_times) < MaxGets
  /\ LET entered == sleep_and_retry(last_reset, num_calls, clock)
     IN  /\ entered.start <= MaxClock
         /\ clock' = entered.start
         /\ last_reset' = entered.last_reset
         /\ num_calls' = entered.num_calls
         /\ \E got \in GetOutcomes :
              get_times' = Append(get_times,
                                  [called |-> clock, start |-> entered.start, got |-> got,
                                   response |-> fetch_result(got)])
  /\ fetch_calls' = fetch_calls + 1
  /\ UNCHANGED <<crawl_vars, ex_in, ex_out>>

InitRate ==
  /\ config_arg \in RateConfigs
  /\ InitProcess

NextRate ==
  \/ Tick
  \/ _fetch_url

SpecRate == InitRate /\ [][NextRate]_vars

\* ================================================================== claims
\* the configuration a caller asked for
RequestedConfig == IF config_arg = NoConfig THEN ScrapingConfig ELSE config_arg

\* positions of the page GETs in the invocation's network log
PageGets == { i \in 1..Len(net) : net[i].kind = "page" }

\* the same-domain, non-binary links of the seed page other than the seed itself
Candidates == _extract_links(main_soup, call.url, {call.url})

Returned == pc = "done" /\ outcome = "returned"

\* C1: with max_pages >= 1, the result scrape returns has at most max_pages pages,
\* however many candidate links the seed page has.
C1_PagesWithinBudget ==
  (Returned /\ RequestedConfig.max_pages >= 1)
    => Len(results.pages) <= RequestedConfig.max_pages

\* a crawl that filled its budget of 2 although the seed page offered more candidates
C1_Witness ==
  /\ Returned
  /\ RequestedConfig.max_pages = 2
  /\ Len(results.pages) = 2
  /\ results.error = NoneStr
  /\ Len(Candidates) > Len(links_to_scrape)

\* C2: no two entries of the returned pages have the same url, also when the seed
\* page links to itself and when a link occurs several times on it.
C2_NoDuplicatePages ==
  Returned =>
    \A i, j \in 1..Len(results.pages) :
      i # j => results.pages[i].url # results.pages[j].url

\* the seed page links to itself and twice to a page that was fetched
C2_Witness ==
  /\ Returned
  /\ Len(results.pages) >= 2
  /\ \E i \in 1..Len(main_soup) : main_soup[i] = HEmpty
  /\ Len(links_to_scrape) = 2
  /\ links_to_scrape[1] = links_to_scrape[2]
  /\ results.pages[2].url = links_to_scrape[1]

\* C3: valid seed, respect_robots_txt false, seed fetch succeeded: scrape returns
\* pages[0].url == seed and error == null, whatever the links of the seed page are
\* (stated for the configurations with a positive max_pages).
C3_SeedFirstNoError ==
  (pc = "done" /\ call.url \in ValidSeeds /\ ~ RequestedConfig.respect_robots_txt
     /\ RequestedConfig.max_pages >= 1 /\ main_response = "ok")
    => /\ outcome = "returned"
       /\ Len(results.pages) >= 1
       /\ results.pages[1].url = call.url
       /\ results.error = NoneStr

\* C4: a failed seed fetch is reported, not raised: pages == [], error a non-empty
\* string, and the seed GET is the only page GET of the invocation.
C4_SeedFailureReported ==
  (pc = "done" /\ main_response = "None")
    => /\ outcome = "returned"
       /\ results_made
       /\ results.pages = <<>>
       /\ results.error \notin {NoneStr, ""}
       /\ PageGets = {Len(net)}
       /\ net[Len(net)] = PageGet(call.url)

\* a permitted seed (robots.txt consulted and allowing) whose fetch failed
C4_Witness ==
  /\ pc = "done"
  /\ main_response = "None"
  /\ allowed = "True"
  /\ Len(net) = 2

\* C5: on a malformed seed, the step of scrape that validates raises ValueError with
\* no GET issued before it, no results dict made and the scraper object (its
\* Visited Set included) left as it was.
C5_MalformedSeedRaisesFirst ==
  [][(pc = "validate" /\ call.url \in MalformedSeeds)
       => /\ pc' = "done"
          /\ outcome' = "ValueError"
          /\ net = <<>> /\ net' = <<>>
          /\ robots_gets' = robots_gets
          /\ ~ results_made'
          /\ scrapers' = scrapers]_vars

\* a malformed seed rejected on a scraper whose Visited Set is not empty
C5_Witness ==
  /\ pc = "done"
  /\ outcome = "ValueError"
  /\ call.url \in MalformedSeeds
  /\ visited_urls # {}
  /\ net = <<>>

\* C6: when respect_robots_txt is set and can_fetch answers False for the seed,
\* scrape raises PermissionError: no results dict, no page GET in the invocation.
C6_DisallowedSeedRaises ==
  allowed = "False"
    => /\ pc = "done"
       /\ outcome = "PermissionError"
       /\ ~ results_made
       /\ PageGets = {}

\* robots.txt was fetched, disallows the seed, and scrape has raised
C6_Witness ==
  /\ allowed = "False"
  /\ outcome = "PermissionError"
  /\ net = <<RobotsGet(netloc(call.url))>>

\* C7: with scrape_multiple_pages false, every page GET is for the seed and a
\* reachable seed gives exactly one page.
C7_SinglePageMode ==
  (pc = "done" /\ ~ RequestedConfig.scrape_multiple_pages)
    => /\ \A i \in PageGets : net[i].url = call.url
       /\ main_response = "ok" => (outcome = "returned" /\ Len(results.pages) = 1)

\* single-page mode on a seed page with two candidates and budget for them
C7_Witness ==
  /\ Returned
  /\ ~ RequestedConfig.scrape_multiple_pages
  /\ RequestedConfig.max_pages = 3
  /\ main_response = "ok"
  /\ Len(Candidates) >= 2
  /\ Len(results.pages) = 1

\* C8: with max_pages = 1 and scrape_multiple_pages true, the result holds the seed
\* page only and no other URL is fetched.
C8_BudgetOfOne ==
  (Returned /\ RequestedConfig.max_pages = 1 /\ RequestedConfig.scrape_multiple_pages)
    => /\ Len(results.pages) <= 1
       /\ \A i \in 1..Len(results.pages) : results.pages[i].url = call.url
       /\ \A i \in PageGets : net[i].url = call.url

\* budget 1 on a fresh scraper whose seed page has same-domain, non-binary links
C8_Witness ==
  /\ Returned
  /\ RequestedConfig.max_pages = 1
  /\ RequestedConfig.scrape_multiple_pages
  /\ visited_urls = {call.url}
  /\ results.error = NoneStr
  /\ Len(Candidates) >= 2
  /\ Len(results.pages) = 1

\* C9: every URL _extract_links returns has the base URL's network location and
\* does not end in .pdf, .zip, .png or .jpg.
C9_LinksSameDomainNoBinary ==
  \A i \in 1..Len(ex_out) :
    /\ ex_out[i].netloc = ex_in.base_url.netloc
    /\ ex_out[i].rest # <<>> => ex_out[i].rest[Len(ex_out[i].rest)] \notin BinaryExt

\* a page with a kept link, an off-domain link and a binary link
C9_Witness ==
  /\ Len(ex_out) >= 1
  /\ \E i \in 1..Len(ex_in.soup) :
       ex_in.soup[i].kind = "abs" /\ ex_in.soup[i].netloc # ex_in.base_url.netloc
         /\ ex_in.soup[i].rest = <<"/p1">>
  /\ \E i \in 1..Len(ex_in.soup) : ex_in.soup[i] = HPath(<<"/f", ".jpg">>)

\* C10: two crawls of one domain with respect_robots_txt issue at most one
\* robots.txt GET for it, when both are scrape calls on one WebScraper and when
\* both are requests to the scrape endpoint.
C10_OneRobotsFetchPerDomain ==
  (/\ calls <= 2
   /\ \/ Len(jobs) = calls
      \/ jobs = <<>> /\ Len(scrapers) <= 1)
    => \A d \in Domains : robots_gets[d] <= 1

\* the invocation is past its robots check
PastRobots == pc \in {"fetch_seed", "expand", "loop", "done"}

\* the robots check of the invocation issued a robots.txt GET
RobotsLookedUp == PastRobots /\ net # <<>> /\ net[1].kind = "robots"

\* the robots.txt GET of the invocation failed: nothing was parsed or stored
RobotsLookupFailed ==
  RobotsLookedUp /\ netloc(call.url) \notin self.robots_checker.cache

\* C11: when the robots.txt lookup fails, can_fetch answers True and nothing is raised,
\* so a scrape with respect_robots_txt=true goes on to fetch the seed page.
C11_FailOpen ==
  RobotsLookupFailed =>
    /\ allowed = "True"
    /\ outcome # "PermissionError"
    /\ pc = "fetch_seed" \/ (Len(net) >= 2 /\ net[2] = PageGet(call.url))

\* a crawl that fetched its seed page after the robots.txt GET had failed
C11_Witness ==
  /\ RobotsLookupFailed
  /\ config.respect_robots_txt
  /\ main_response = "ok"
  /\ net[2] = PageGet(call.url)

\* C12: in every returned result, error is set only if the seed page was not obtained:
\* error != null implies pages == [].
C12_ErrorOnlyWithoutPages ==
  Returned => (results.error # NoneStr => results.pages = <<>>)

\* C13: the starts of two consecutive GETs of _fetch_url are at least 1/rate_limit
\* seconds apart, for every positive rate_limit configured.
C13_FetchesSpacedByRateLimit ==
  \A i \in 2..Len(get_times) :
    (get_times[i].start - get_times[i-1].start) * RequestedConfig.rate_limit >= TicksPerSecond

\* C14: a job of the scrape endpoint is running while its scrape runs and terminal
\* afterwards; it ends failed exactly when the returned result has an error or scrape
\* raised, completed otherwise, and a returned result is stored as its content.
C14_JobLifecycle ==
  /\ [](\A j \in 1..Len(jobs) :
         /\ jobs[j].status \in {"running", "completed", "failed"}
         /\ jobs[j].status = "running"
              <=> (pc # "idle" /\ call.via = "endpoint" /\ call.job = j))
  /\ [][ (pc = "done" /\ call.via = "endpoint") =>
           /\ jobs'[call.job].status =
                IF outcome = "returned" /\ results.error = NoneStr
                  THEN "completed" ELSE "failed"
           /\ jobs'[call.job].has_content = (outcome = "returned")
           /\ outcome = "returned" => jobs'[call.job].content = results ]_vars

\* two finished jobs: one completed with pages, one failed whose content has the error
C14_Witness ==
  /\ pc = "idle"
  /\ Len(jobs) = 2
  /\ \E j, k \in 1..2 :
       /\ jobs[j].status = "completed" /\ jobs[j].content.pages # <<>>
       /\ jobs[k].status = "failed" /\ jobs[k].has_content
       /\ jobs[k].content.error = SeedError

\* what is left of a scrape invocation, as a number that every step lowers
Rank ==
  CASE pc = "validate" -> MaxSeedLinks + 6
    [] pc = "robots" -> MaxSeedLinks + 5
    [] pc = "fetch_seed" -> MaxSeedLinks + 4
    [] pc = "expand" -> MaxSeedLinks + 3
    [] pc = "loop" -> Len(links_to_scrape) + 2 - idx
    [] OTHER -> 0

\* some step of scrape can be taken
ScrapeCanStep ==
  ENABLED (Validate \/ CheckRobots \/ SeedUnavailable \/ SeedFetched \/ ExpandSeed
           \/ LoopIter)

\* C15: every scrape invocation terminates: while it runs a step is always possible and
\* every step lowers a natural number, the loop making at most one pass per candidate
\* link kept after truncation; a failed seed fetch ends in a returned error result.
C15_ScrapeTerminates ==
  /\ [](pc \notin {"idle", "done"} => ScrapeCanStep /\ Rank > 0)
  /\ [](pc = "loop" => idx \in 1..(Len(links_to_scrape) + 1))
  /\ [](pc = "done" => outcome \in {"returned", "ValueError", "PermissionError"})
  /\ []((pc = "done" /\ main_response = "None") =>
           outcome = "returned" /\ results.error # NoneStr)
  /\ [][pc \notin {"idle", "done"} => Rank' < Rank]_vars

\* a crawl that ended after a secondary fetch had failed and all candidates were passed
C15_Witness ==
  /\ Returned
  /\ Len(links_to_scrape) = 2
  /\ idx = 3
  /\ main_response = "ok"
  /\ Cardinality(PageGets) > Len(results.pages)

\* C16: at the start of every scrape call the visited set is empty.
C16_VisitedEmptyAtStart ==
  (pc = "validate" /\ _is_valid_url(call.url)) => visited_urls = {}

\* the URLs the anchors of the seed page resolve to
SeedLinkUrls ==
  { urljoin(call.url, main_soup[k]) :
      k \in { n \in 1..Len(main_soup) : ~ urljoin_raises(main_soup[n]) } }

\* C17: every page URL fetched in a scrape invocation is the seed URL or a link of the
\* seed page with the seed's domain; links of secondary pages are not queued or fetched.
C17_DepthOneStar ==
  /\ \A i \in PageGets :
       \/ net[i].url = call.url
       \/ net[i].url \in SeedLinkUrls /\ netloc(net[i].url) = netloc(call.url)
  /\ \A k \in 1..Len(links_to_scrape) : links_to_scrape[k] \in SeedLinkUrls

\* a crawl that fetched two secondary pages of its seed's domain
C17_Witness ==
  /\ Returned
  /\ Len(results.pages) = 3
  /\ Cardinality(PageGets) = 3

\* C18: after a can_fetch call whose robots.txt GET was issued, failed or not, the
\* cache holds an entry for the domain.
C18_FailedLookupCached ==
  RobotsLookedUp => netloc(call.url) \in self.robots_checker.cache

\* the answer a checker gives for a URL of a domain it has cached
CachedAnswer(checker, url) == is_allowed(checker.parser, url)

\* C19: a cache entry, once written, stays and keeps its answers: no step changes what
\* a checker answers for a URL of a domain it has cached.
C19_CacheEntryStable ==
  [][ \A i \in 1..Len(scrapers) :
        i <= Len(scrapers') =>
          \A d \in scrapers[i].robots_checker.cache :
            /\ d \in scrapers'[i].robots_checker.cache
            /\ \A u \in ValidSeeds :
                 netloc(u) = d =>
                   CachedAnswer(scrapers'[i].robots_checker, u)
                     = CachedAnswer(scrapers[i].robots_checker, u) ]_vars

\* C20: a scrape invocation consults robots once at most and only for its seed, and
\* with respect_robots_txt=false it does not call can_fetch, fetches no robots.txt
\* and leaves the robots cache as it was.
C20_RobotsOnlyForSeed ==
  /\ [](\A i \in 1..Len(net) :
          net[i].kind = "robots" =>
            /\ i = 1
            /\ net[i] = RobotsGet(netloc(call.url))
            /\ RequestedConfig.respect_robots_txt)
  /\ [](~ RequestedConfig.respect_robots_txt =>
          /\ allowed = "unset"
          /\ \A d \in Domains : robots_gets[d] = 0
          /\ \A i \in 1..Len(scrapers) : scrapers[i].robots_checker = RobotsTxtChecker)
  /\ [][ /\ allowed' # allowed => (allowed' = "unset" \/ (pc = "robots" /\ allowed = "unset"))
         /\ pc # "robots" =>
              /\ robots_gets' = robots_gets
              /\ \A i \in 1..Len(scrapers) :
                   i <= Len(scrapers') =>
                     scrapers'[i].robots_checker = scrapers[i].robots_checker ]_vars

\* a crawl of several pages with respect_robots_txt=false and no robots.txt traffic
C20_Witness ==
  /\ Returned
  /\ ~ RequestedConfig.respect_robots_txt
  /\ Len(results.pages) >= 2
  /\ \A i \in 1..Len(net) : net[i].kind = "page"

\* the urls of the pages stored so far
PageUrls == { results.pages[k].url : k \in 1..Len(results.pages) }

\* the loop step taken issues a GET for a candidate
CandidateGet == pc = "loop" /\ net' # net

\* C21: a failed fetch of a secondary page leaves error, pages and the visited set as
\* they were and the loop goes on with the next candidate; in a returned result every
\* candidate is stored unless its fetch failed or the budget check stopped the loop.
C21_FailedSecondarySkipped ==
  /\ [][ CandidateGet =>
           /\ pc' = "loop"
           /\ idx' = idx + 1
           /\ results'.error = NoneStr
           /\ results'.pages = results.pages => (results' = results /\ scrapers' = scrapers)
       ]_vars
  /\ []( (Returned /\ results.error = NoneStr) =>
           \A k \in 1..Len(links_to_scrape) :
             \/ links_to_scrape[k] \in PageUrls
             \/ \E i \in PageGets : net[i].url = links_to_scrape[k]
             \/ Cardinality(visited_urls) >= RequestedConfig.max_pages )

\* a crawl whose first candidate could not be fetched and whose second one is stored
C21_Witness ==
  /\ Returned
  /\ results.error = NoneStr
  /\ Len(links_to_scrape) = 2
  /\ links_to_scrape[1] \notin PageUrls
  /\ \E i \in PageGets : net[i].url = links_to_scrape[1]
  /\ links_to_scrape[2] \in PageUrls

\* C22: within one scrape invocation no page URL is requested more than once.
C22_NoPageRequestedTwice ==
  \A i, j \in PageGets : net[i].url = net[j].url => i = j

\* the visited set as it was when the links of the seed page were extracted
VisitedAtExpand ==
  (visited_urls \ { results.pages[k].url : k \in 2..Len(results.pages) }) \cup {call.url}

\* all links of the seed page that pass the filters, before truncation
FullLinkList == _extract_links(main_soup, call.url, VisitedAtExpand)

\* the link list of the invocation has been made
ListMade == pc \in {"loop", "done"} /\ idx >= 1

\* the tokens of a URL that belong to its query string or fragment
QueryTokens == {"?q"}

\* the path of a URL: what precedes the query string
PathTokens(url) == SelectSeq(url.rest, LAMBDA t : t \notin QueryTokens)

\* the path of the URL ends in one of the binary extensions
PathIsBinary(url) ==
  PathTokens(url) # <<>> /\ PathTokens(url)[Len(PathTokens(url))] \in BinaryExt

\* the resolved hrefs of a page, in document order, that pass the three filters
RECURSIVE LinksByPath(_, _, _)
LinksByPath(soup, base_url, visited) ==
  IF soup = <<>> THEN <<>>
  ELSE LET full_url == urljoin(base_url, Head(soup))
           tail == LinksByPath(Tail(soup), base_url, visited)
       IN IF /\ netloc(full_url) = netloc(base_url)
             /\ full_url \notin visited
             /\ ~ PathIsBinary(full_url)
            THEN <<full_url>> \o tail ELSE tail

\* C24: _extract_links returns, in document order and with repeats kept, exactly the
\* resolved hrefs of the base domain that are not visited and whose path does not end
\* in .pdf, .zip, .png or .jpg, whatever query string follows the path.
C24_LinksFilteredByPath ==
  ex_in # NoExtract =>
    ex_out = LinksByPath(ex_in.soup, ex_in.base_url, ex_in.visited_urls)

\* C25: with max_pages >= 1 one scrape invocation issues at most max_pages page GETs,
\* failed ones counted: the seed and candidates taken from the first max_pages - 1
\* entries of the link list in discovery order.
C25_BudgetCapsAttempts ==
  (pc # "idle" /\ RequestedConfig.max_pages >= 1) =>
    /\ Cardinality(PageGets) <= RequestedConfig.max_pages
    /\ ListMade =>
         /\ Len(links_to_scrape) <= RequestedConfig.max_pages - 1
         /\ Len(links_to_scrape) <= Len(FullLinkList)
         /\ Len(links_to_scrape) < Len(FullLinkList) =>
              Len(links_to_scrape) = RequestedConfig.max_pages - 1
         /\ \A k \in 1..Len(links_to_scrape) : links_to_scrape[k] = FullLinkList[k]
         /\ \A i \in PageGets :
              net[i].url # call.url =>
                \E k \in 1..Len(links_to_scrape) : links_to_scrape[k] = net[i].url

\* a crawl with a budget of 2 that spent its second fetch on a candidate that failed,
\* the seed page having more candidates
C25_Witness ==
  /\ Returned
  /\ RequestedConfig.max_pages = 2
  /\ Cardinality(PageGets) = 2
  /\ Len(results.pages) = 1
  /\ Len(FullLinkList) > 1

\* the position at which a URL first occurs in the link list
FirstOccurrence(url) ==
  CHOOSE k \in 1..Len(links_to_scrape) :
    /\ links_to_scrape[k] = url
    /\ \A m \in 1..(k - 1) : links_to_scrape[m] # url

\* C26: pages[0] is the seed page and the other pages come in the order in which
\* their links first occur in the truncated link list.
C26_PagesInDiscoveryOrder ==
  (Returned /\ results.pages # <<>>) =>
    /\ results.pages[1].url = call.url
    /\ \A i, j \in 2..Len(results.pages) :
         i < j => FirstOccurrence(results.pages[i].url)
                    < FirstOccurrence(results.pages[j].url)

C23_OneGetResponseOrNone ==
  /\ Len(get_times) = fetch_calls
  /\ \A i \in 1..Len(get_times) :
       /\ get_times[i].start >= get_times[i].called
       /\ get_times[i].response =
            IF ~ get_times[i].got.raises /\ get_times[i].got.status \in 200..299
              THEN "ok" ELSE NoneStr

====
